---- MODULE Spec2Model ----
(***************************************************************************)
(* Permissive selection of fields in a JSON document (src/src/lib.rs).     *)
(*                                                                         *)
(* Strings are sequences of byte values (ASCII codes), so that prefix      *)
(* tests, byte-wise sorting and trimming are computed as the code computes *)
(* them.  A JSON value is a pair <<kind, payload>>:                        *)
(*   <<"scalar", n>>, <<"array", sequence of values>>,                     *)
(*   <<"object", function from keys to values>>.                           *)
(* A Document (serde_json Map) is a function from keys to values.          *)
(***************************************************************************)
EXTENDS Integers, Sequences, FiniteSets, TLC

VARIABLES value, selectors, called, out, prev

vars == <<value, selectors, called, out, prev>>

\* const SPLIT_SYMBOL: char = '.'
SPLIT_SYMBOL == 46

----------------------------------------------------------------------------
(* Strings *)

\* str::starts_with
starts_with(s, p) == Len(p) <= Len(s) /\ SubSeq(s, 1, Len(p)) = p

\* the order of String (byte-wise lexicographic), strict
StrLess(x, y) ==
    \E i \in 1..Len(y) :
        /\ i - 1 <= Len(x)
        /\ \A j \in 1..(i - 1) : x[j] = y[j]
        /\ (Len(x) = i - 1 \/ x[i] < y[i])

\* fn contained_in(subset, main)
contained_in(subset, main) ==
    /\ starts_with(subset, main)
    /\ (Len(subset) = Len(main) \/ subset[Len(main) + 1] = SPLIT_SYMBOL)

\* is_simple with a fault: a key that holds a separator counts as simple too
is_simple_always(key) == TRUE

\* fn is_simple(key)
is_simple(key) == \A i \in 1..Len(key) : key[i] # SPLIT_SYMBOL

RECURSIVE trim_start_matches(_, _)
\* str::trim_start_matches: the pattern is stripped as often as it leads the
\* string; the empty pattern strips nothing
trim_start_matches(s, pat) ==
    IF pat # <<>> /\ starts_with(s, pat)
    THEN trim_start_matches(SubSeq(s, Len(pat) + 1, Len(s)), pat)
    ELSE s

\* sub_selector with a fault: the separator is left on the sub selector
sub_selector_keeps_separator(s, key) == {trim_start_matches(s, key)}

\* s.trim_start_matches(key).get(SPLIT_SYMBOL.len_utf8()..), an Option as a
\* set of at most one string
sub_selector(s, key) ==
    LET t == trim_start_matches(s, key)
    IN  IF Len(t) >= 1 THEN {SubSeq(t, 2, Len(t))} ELSE {}

\* the sub selectors of the current field
sub_selectors(sels, key) ==
    UNION {sub_selector(s, key) : s \in {s \in sels : contained_in(s, key)}}

----------------------------------------------------------------------------
(* simplify_selectors *)

RECURSIVE sort(_)
\* Vec::sort on strings
sort(v) ==
    IF v = <<>> THEN <<>>
    ELSE LET rest == sort(Tail(v))
             x == Head(v)
             n == Cardinality({i \in 1..Len(rest) : StrLess(rest[i], x)})
         IN  SubSeq(rest, 1, n) \o <<x>> \o SubSeq(rest, n + 1, Len(rest))

RECURSIVE dedup_loop(_, _, _)
dedup_loop(v, i, kept) ==
    IF i > Len(v) THEN kept
    ELSE IF contained_in(v[i], kept[Len(kept)])
         THEN dedup_loop(v, i + 1, kept)
         ELSE dedup_loop(v, i + 1, Append(kept, v[i]))

\* Vec::dedup_by(|sub, main| contained_in(sub, main)): an element is removed
\* when it is contained in the last element kept
dedup_by(v) == IF v = <<>> THEN <<>> ELSE dedup_loop(v, 2, <<v[1]>>)

\* fn simplify_selectors(selectors)
simplify_selectors(sels) == dedup_by(sort(sels))

Range(s) == {s[i] : i \in 1..Len(s)}

----------------------------------------------------------------------------
(* Values *)

Scalar(n) == <<"scalar", n>>
Array(items) == <<"array", items>>
Object(fields) == <<"object", fields>>

\* Map::new()
EmptyMap == [k \in {} |-> 0]

\* Map::insert: the new value replaces the one the key had
insert(m, k, v) == [x \in DOMAIN m \cup {k} |-> IF x = k THEN v ELSE m[x]]

\* is_empty of a Map or of a Vec
is_empty(c) == DOMAIN c = {}

\* insert_projected with a fault: the projection is inserted even when empty
insert_projected_always(new_value, key, projected) ==
    insert(new_value, key, projected)

\* if !projected.is_empty() { new_value.insert(key, projected.into()) }
insert_projected(new_value, key, projected) ==
    IF is_empty(projected[2]) THEN new_value
    ELSE insert(new_value, key, projected)

\* push_projected with a fault: the projection is pushed even when empty
push_projected_always(res, projected) == Append(res, projected)

\* if !projected.is_empty() { res.push(projected.into()) }
push_projected(res, projected) ==
    IF is_empty(projected[2]) THEN res ELSE Append(res, projected)

----------------------------------------------------------------------------
(* create_value and create_array.  ord lists the keys in the order in which *)
(* Map::iter yields them.                                                   *)

RECURSIVE create_value(_, _, _)
RECURSIVE create_array(_, _, _)

\* fn create_value(value, selectors)
create_value(doc, sels0, ord) ==
    LET keys == SelectSeq(ord, LAMBDA k : k \in DOMAIN doc)
        RECURSIVE loop(_, _, _)
        loop(i, new_value, sels) ==
            IF i > Len(keys) THEN new_value
            ELSE
              LET key == keys[i]
                  v == doc[key]
                  hit == key \in sels
                  nv1 == IF hit THEN insert(new_value, key, v) ELSE new_value
              IN  IF hit /\ is_simple(key)
                  THEN loop(i + 1, nv1, sels \ {key})
                  ELSE
                    LET sub == sub_selectors(sels, key)
                        nv2 ==
                          IF sub = {} THEN nv1
                          ELSE IF v[1] = "array"
                          THEN insert_projected(nv1, key,
                                   Array(create_array(v[2], sub, ord)))
                          ELSE IF v[1] = "object"
                          THEN insert_projected(nv1, key,
                                   Object(create_value(v[2], sub, ord)))
                          ELSE nv1
                    IN  loop(i + 1, nv2, sels)
    IN  loop(1, EmptyMap, sels0)

\* fn create_array(array, selectors)
create_array(array, sels, ord) ==
    LET RECURSIVE loop(_, _)
        loop(i, res) ==
            IF i > Len(array) THEN res
            ELSE
              LET v == array[i]
              IN  IF v[1] = "array"
                  THEN loop(i + 1,
                         push_projected(res, Array(create_array(v[2], sels, ord))))
                  ELSE IF v[1] = "object"
                  THEN loop(i + 1,
                         push_projected(res, Object(create_value(v[2], sels, ord))))
                  ELSE loop(i + 1, res)
    IN  loop(1, <<>>)

\* pub fn select_values(value, selectors)
select_values(doc, sels, ord) ==
    create_value(doc, Range(simplify_selectors(sels)), ord)

----------------------------------------------------------------------------
(* Inputs *)

\* the segments of all the selectors of one call, together
MaxTotalSegs == 4
\* the elements of an array
MaxArrayLen == 2
\* the segments of one selector and the selectors of one call (SpecExtend)
MaxSegs == 3
MaxSelectors == 2
\* the bytes of one selector and the selectors of one call (SpecSimplify)
MaxStrLen == 3
MaxListLen == 3

a == <<97>>
b == <<98>>
a_b == <<97, 46, 98>>

RECURSIVE Join(_)
\* a selector: segments joined with SPLIT_SYMBOL
Join(segs) ==
    IF Len(segs) = 1 THEN segs[1]
    ELSE segs[1] \o <<SPLIT_SYMBOL>> \o Join(Tail(segs))

SeqsUpTo(S, n) == UNION {[1..m -> S] : m \in 0..n}

Segments == {a, b}

\* the selectors of exactly n segments
SelectorsOf(n) == {Join(p) : p \in [1..n -> Segments]}

RECURSIVE ListsWithin(_)
\* the selector lists whose selectors have n segments or fewer in all
ListsWithin(n) ==
    {<<>>} \cup
    UNION {{<<s>> \o l : s \in SelectorsOf(k), l \in ListsWithin(n - k)} :
             k \in 1..n}

SelectorLists == ListsWithin(MaxTotalSegs)

\* every Map over a subset of keys, with values in vals
ObjectsOver(keys, vals) == UNION {[K -> vals] : K \in SUBSET keys}

Leaf == Scalar(1)
Flat == ObjectsOver({a, b}, {Leaf})
Nested == {Leaf} \cup {Object(o) : o \in Flat}
PlainDocs == ObjectsOver({a, b}, Nested)
\* three levels, as "jean.race.name"
DeepDocs ==
    {(a :> Object(k :> Object(o))) @@ r :
        k \in {a, b}, o \in Flat, r \in ObjectsOver({b}, {Leaf})}
DottedDocs == ObjectsOver({a, a_b}, Nested)
Elements ==
    {Leaf, Object(a :> Leaf), Object(b :> Leaf),
     Array(<<Leaf, Object(a :> Leaf)>>)}
ArrayDocs == {a :> Array(items) : items \in SeqsUpTo(Elements, MaxArrayLen)}
Docs == PlainDocs \cup DeepDocs \cup DottedDocs \cup ArrayDocs

\* the orders in which Map::iter may yield the keys
AllKeys == {a, b, a_b}
KeyOrders ==
    {o \in [1..Cardinality(AllKeys) -> AllKeys] :
        \A i, j \in DOMAIN o : i # j => o[i] # o[j]}

\* SpecExtend: selectors of MaxSegs segments or fewer
SelectorPool == UNION {SelectorsOf(n) : n \in 1..MaxSegs}

\* SpecSimplify: selectors over bytes below and above SPLIT_SYMBOL; every
\* segment starts with a letter
Bytes == {32, SPLIT_SYMBOL, 97}
WellFormed(s) ==
    /\ s # <<>>
    /\ s[1] # SPLIT_SYMBOL
    /\ s[Len(s)] # SPLIT_SYMBOL
    /\ \A i \in 1..(Len(s) - 1) : ~(s[i] = SPLIT_SYMBOL /\ s[i + 1] = SPLIT_SYMBOL)
Named(s) ==
    /\ WellFormed(s)
    /\ s[1] = 97
    /\ \A i \in 1..(Len(s) - 1) : s[i] = SPLIT_SYMBOL => s[i + 1] = 97
ByteSelectors == {s \in SeqsUpTo(Bytes, MaxStrLen) : Named(s)}

----------------------------------------------------------------------------
(* The calls *)

Init ==
    /\ value \in Docs
    /\ selectors \in SelectorLists
    /\ called = "none"
    /\ out = EmptyMap
    /\ prev = EmptyMap

\* select_values(value, selectors)
SelectValues ==
    /\ called = "none"
    /\ \E ord \in KeyOrders : out' = select_values(value, selectors, ord)
    /\ called' = "select_values"
    /\ UNCHANGED <<value, selectors, prev>>

\* create_value(value, selectors) called with the selectors as given
CreateValue ==
    /\ called = "none"
    /\ \E ord \in KeyOrders : out' = create_value(value, Range(selectors), ord)
    /\ called' = "create_value"
    /\ UNCHANGED <<value, selectors, prev>>

\* select_values called again with one more selector
Extend ==
    /\ called \in {"select_values", "extended"}
    /\ Len(selectors) < MaxSelectors
    /\ \E u \in SelectorPool, ord \in KeyOrders :
          /\ selectors' = Append(selectors, u)
          /\ out' = select_values(value, selectors', ord)
    /\ prev' = out
    /\ called' = "extended"
    /\ UNCHANGED value

\* simplify_selectors(selectors)
SimplifySelectors ==
    /\ called = "none"
    /\ out' = simplify_selectors(selectors)
    /\ called' = "simplify_selectors"
    /\ UNCHANGED <<value, selectors, prev>>

Next == SelectValues \/ CreateValue

Spec == Init /\ [][Next]_vars

InitExtend ==
    /\ value \in DottedDocs
    /\ selectors \in SeqsUpTo(SelectorPool, MaxSelectors)
    /\ called = "none"
    /\ out = EmptyMap
    /\ prev = EmptyMap

NextExtend == SelectValues \/ CreateValue \/ Extend

SpecExtend == InitExtend /\ [][NextExtend]_vars

InitSimplify ==
    /\ value = EmptyMap
    /\ selectors \in SeqsUpTo(ByteSelectors, MaxListLen)
    /\ called = "none"
    /\ out = EmptyMap
    /\ prev = EmptyMap

NextSimplify == SimplifySelectors

SpecSimplify == InitSimplify /\ [][NextSimplify]_vars

----------------------------------------------------------------------------
(* Properties *)

\* the selectors that reach create_value in the call that was made
Given == IF called = "create_value" THEN Range(selectors)
         ELSE Range(simplify_selectors(selectors))

RECURSIVE PlainDoc(_)
\* no key holds a separator, and every value is a scalar or such an object
PlainDoc(doc) ==
    \A k \in DOMAIN doc :
        /\ is_simple(k)
        /\ \/ doc[k][1] = "scalar"
           \/ doc[k][1] = "object" /\ PlainDoc(doc[k][2])

RECURSIVE Reference(_, _, _)
\* the reference projection: a node whose dot-joined key path is a selector
\* is kept whole, and an object above such a node is kept with the selected
\* part only; path is the path of doc itself, as a set of at most one string
Reference(doc, path, sels) ==
    LET PathOf(k) == IF path = {} THEN k
                     ELSE (CHOOSE p \in path : TRUE) \o <<SPLIT_SYMBOL>> \o k
        Part(k) == IF doc[k][1] = "object"
                   THEN Reference(doc[k][2], {PathOf(k)}, sels)
                   ELSE EmptyMap
        kept == {k \in DOMAIN doc : PathOf(k) \in sels \/ ~is_empty(Part(k))}
    IN  [k \in kept |-> IF PathOf(k) \in sels THEN doc[k] ELSE Object(Part(k))]

\* C1: on a document of scalars and nested objects whose keys hold no
\* separator, and selectors without empty segments, select_values returns the
\* reference projection: every node whose dot-joined path is a selector, whole
\* and at its original nesting, and no other key.
C1_ReferenceProjection ==
    (/\ called = "select_values"
     /\ PlainDoc(value)
     /\ \A s \in Range(selectors) : WellFormed(s))
    => out = Reference(value, {}, Range(selectors))

\* C1's case: a plain document of which a nested object was narrowed by two
\* or more selectors
C1_Witness ==
    /\ called = "select_values"
    /\ PlainDoc(value)
    /\ Len(selectors) >= 2
    /\ \E k \in DOMAIN out : out[k] # value[k]

RECURSIVE Contains(_, _)
RECURSIVE ValueContains(_, _)
\* big holds every key of small, with a value that contains small's
Contains(big, small) ==
    /\ DOMAIN small \subseteq DOMAIN big
    /\ \A k \in DOMAIN small : ValueContains(big[k], small[k])

\* equal scalars, an object with a containing mapping, an array into which
\* the elements of the smaller one embed in order
ValueContains(big, small) ==
    /\ big[1] = small[1]
    /\ CASE small[1] = "object" -> Contains(big[2], small[2])
         [] small[1] = "array" ->
              \E f \in [1..Len(small[2]) -> 1..Len(big[2])] :
                  /\ \A i, j \in DOMAIN f : i < j => f[i] < f[j]
                  /\ \A i \in DOMAIN f : ValueContains(big[2][f[i]], small[2][i])
         [] OTHER -> big = small

\* C2: monotonicity: every key of select_values(doc, S1) is a key of
\* select_values(doc, S1 followed by one more selector), with a value that
\* contains the value it had.
C2_Monotone == called = "extended" => Contains(out, prev)

\* C3: a key that literally holds a separator and is one of the selectors is
\* in the result of select_values with its original value.
C3_LiteralDottedKey ==
    called = "select_values" =>
        \A k \in DOMAIN value :
            (~is_simple(k) /\ k \in Range(selectors)) =>
                (k \in DOMAIN out /\ out[k] = value[k])

\* C4: create_value, called with a selector set that holds a key k of the
\* object and descendants of k, puts the full original value under k.
C4_AncestorDominance ==
    called = "create_value" =>
        \A k \in DOMAIN value :
            (/\ k \in Range(selectors)
             /\ \E s \in Range(selectors) : s # k /\ contained_in(s, k))
            => (k \in DOMAIN out /\ out[k] = value[k])

\* the projection of an element of an array, for each iteration order
Projections(e, sels) ==
    IF e[1] = "object"
    THEN {Object(create_value(e[2], sels, ord)) : ord \in KeyOrders}
    ELSE IF e[1] = "array"
    THEN {Array(create_array(e[2], sels, ord)) : ord \in KeyOrders}
    ELSE {}

\* res is arr filter-mapped under sels: its elements are the non-empty
\* projections of elements of arr, in their order, and every element left out
\* is a scalar or has an empty projection
FilterMap(res, arr, sels) ==
    /\ Len(res) <= Len(arr)
    /\ \A i \in 1..Len(res) : res[i][1] # "scalar" /\ ~is_empty(res[i][2])
    /\ \E f \in [1..Len(res) -> 1..Len(arr)] :
          /\ \A i, j \in DOMAIN f : i < j => f[i] < f[j]
          /\ \A i \in DOMAIN f : res[i] \in Projections(arr[f[i]], sels)
          /\ \A j \in 1..Len(arr) :
                (\A i \in DOMAIN f : f[i] # j) =>
                    \A q \in Projections(arr[j], sels) : is_empty(q[2])

\* C5: where the selectors descend through a key whose value is an array,
\* the array under that key in the result is the filter-map of the original:
\* objects and nested arrays replaced by their projection under the same sub
\* selectors and kept only if non-empty, scalars dropped, order kept; the key
\* is left out when nothing is kept.
C5_ArrayFilterMap ==
    called = "select_values" =>
        \A k \in DOMAIN value :
            (/\ value[k][1] = "array"
             /\ k \notin Given
             /\ sub_selectors(Given, k) # {})
            => FilterMap(IF k \in DOMAIN out THEN out[k][2] ELSE <<>>,
                         value[k][2], sub_selectors(Given, k))

\* C5's case: of an array of two elements one was dropped and one was kept
C5_Witness ==
    /\ called = "select_values"
    /\ \E k \in DOMAIN value \cap DOMAIN out :
          /\ value[k][1] = "array"
          /\ k \notin Given
          /\ Len(value[k][2]) = 2
          /\ Len(out[k][2]) = 1

RECURSIVE Denotes(_, _)
RECURSIVE DenotesIn(_, _)
\* a key of doc equals u, or a path through its objects and arrays spells u
Denotes(doc, u) ==
    \E k \in DOMAIN doc :
        \/ k = u
        \/ /\ starts_with(u, k \o <<SPLIT_SYMBOL>>)
           /\ DenotesIn(doc[k], SubSeq(u, Len(k) + 2, Len(u)))

DenotesIn(v, u) ==
    CASE v[1] = "object" -> Denotes(v[2], u)
      [] v[1] = "array" -> \E i \in 1..Len(v[2]) : DenotesIn(v[2][i], u)
      [] OTHER -> FALSE

\* C6: a selector that denotes nothing in the document contributes nothing:
\* select_values with it added returns what it returned without it.
C6_UnmatchedContributesNothing ==
    (called = "extended" /\ ~Denotes(value, selectors[Len(selectors)]))
    => out = prev

\* C7: simplify_selectors returns a minimal covering list: no returned
\* selector is contained_in another one, and every input selector is
\* contained_in a returned one.
C7_MinimalCover ==
    called = "simplify_selectors" =>
        /\ \A i, j \in 1..Len(out) : i # j => ~contained_in(out[i], out[j])
        /\ \A s \in Range(selectors) : \E t \in Range(out) : contained_in(s, t)

RECURSIVE NoEmptyContainer(_)
\* no value of the mapping or sequence c, at any depth, is an empty Object or
\* an empty Array
NoEmptyContainer(c) ==
    \A k \in DOMAIN c :
        \/ c[k][1] = "scalar"
        \/ ~is_empty(c[k][2]) /\ NoEmptyContainer(c[k][2])

\* C8 as stated: the result of select_values holds no empty Object and no
\* empty Array at any depth, also in what an exact match copied.
C8_NoEmptyContainer == called = "select_values" => NoEmptyContainer(out)

RECURSIVE Pruned(_, _)
RECURSIVE PrunedValue(_, _)
RECURSIVE PrunedArray(_, _)
\* every value of res is the original value, copied, or a pruned projection
Pruned(res, doc) ==
    /\ DOMAIN res \subseteq DOMAIN doc
    /\ \A k \in DOMAIN res : res[k] = doc[k] \/ PrunedValue(res[k], doc[k])

\* r is a projection of v: a non-empty container of v's kind, pruned inside
PrunedValue(r, v) ==
    /\ r[1] = v[1]
    /\ r[1] # "scalar"
    /\ ~is_empty(r[2])
    /\ IF r[1] = "object" THEN Pruned(r[2], v[2]) ELSE PrunedArray(r[2], v[2])

\* every element is the projection of an element of arr
PrunedArray(res, arr) ==
    \A i \in 1..Len(res) : \E j \in 1..Len(arr) : PrunedValue(res[i], arr[j])

\* C8 amended: every container that select_values builds by sub-selection is
\* non-empty: a value of the result, at any depth, is either the original
\* value copied whole by an exact match (with the empty containers it had) or
\* a non-empty Object or Array; a document without empty containers yields a
\* result without empty containers.
C8_PrunedUnlessCopied ==
    called = "select_values" =>
        /\ Pruned(out, value)
        /\ (NoEmptyContainer(value) => NoEmptyContainer(out))

\* C8's case: sub selectors descended into an object or array of the
\* document and the projection, being empty, was left out
C8_Witness ==
    /\ called = "select_values"
    /\ out # EmptyMap
    /\ \E k \in DOMAIN value \ DOMAIN out :
          /\ value[k][1] # "scalar"
          /\ ~is_empty(value[k][2])
          /\ sub_selectors(Given, k) # {}

\* C9: simplification never changes the result: select_values returns what
\* create_value returns for the selectors as given.
C9_SimplifyChangesNothing ==
    called = "select_values" =>
        \A ord \in KeyOrders : out = create_value(value, Range(selectors), ord)

\* the mapping m on the one key k
Only(m, k) == [x \in DOMAIN m \cap {k} |-> m[x]]

\* C10: within a create_value call the result is the same for every order in
\* which the keys are visited, and a key receives what it receives when it is
\* the only key of the object: consuming a simple selector for one key
\* changes nothing for its siblings.
C10_NoLeakBetweenSiblings ==
    called = "create_value" =>
        \A ord \in KeyOrders :
            /\ create_value(value, Range(selectors), ord) = out
            /\ \A k \in DOMAIN value :
                  create_value(Only(value, k), Range(selectors), ord) = Only(out, k)

\* C10's case: a simple selector was consumed by one key and a sibling, which
\* holds a separator, was matched or descended into
C10_Witness ==
    /\ called = "create_value"
    /\ \E k, k2 \in DOMAIN out :
          /\ is_simple(k)
          /\ k \in Range(selectors)
          /\ ~is_simple(k2)

====
